---- MODULE Spec2Model ----
(***************************************************************************)
(* Model of vdocipher.py: a linear script that decodes an access token,    *)
(* resolves a manifest, drives a CDM session through a license exchange    *)
(* and prints the content keys.                                            *)
(*                                                                         *)
(* Strings are sequences of symbols.  An exception that leaves main() is   *)
(* an uncaught Python exception: the interpreter stops with exit status 1. *)
(***************************************************************************)
EXTENDS Integers, Sequences, FiniteSets, TLC

VARIABLES
    pc,                 \* position of main()
    wvd,                \* args.wvd
    token,              \* args.token
    video_ref,          \* main: video_ref
    video_id,           \* main: video_id
    mpd,                \* main: mpd (manifest URL)
    mpdText,            \* get_pssh: req.text
    pssh,               \* main: pssh
    session,            \* state of the CDM session: "none", "open", "closed"
    challenge,          \* main: challenge (bytes)
    lc,                 \* setup_license_challenge: the LicenseChallenge object
    raw_license_resp,   \* setup_license_challenge: json.dumps(...)
    license_challenge,  \* main: license_challenge (base64 text)
    request,            \* get_license_response: the POST that was sent
    license_response,   \* main: license_response
    terminal_size,      \* main: terminal_size
    keys,               \* what cdm.get_keys returned
    todo,               \* keys the for loop has not visited yet
    out,                \* lines written to standard output
    exitStatus,         \* -1 while running, else the process exit status
    error,              \* the call that raised, "none" if none did
    calls,              \* calls made by main(), in order
    cdmCalls,           \* calls made on the CDM session, with the session state they met
    http,               \* remote endpoints contacted, in order
    status              \* HTTP status each endpoint answered with (0: not contacted)

vars == <<pc, wvd, token, video_ref, video_id, mpd, mpdText, pssh, session,
          challenge, lc, raw_license_resp, license_challenge, request,
          license_response, terminal_size, keys, todo, out, exitStatus,
          error, calls, cdmCalls, http, status>>

(***************************************************************************)
(* Bounds                                                                  *)
(***************************************************************************)
MaxKeys == 2        \* longest key list cdm.get_keys returns
MaxTextLen == 4     \* longest manifest text, in symbols
MaxValLen == 1      \* longest envelope field value, in symbols

RECURSIVE SeqsUpTo(_, _)
SeqsUpTo(S, n) ==
    IF n = 0 THEN {<<>>}
    ELSE LET shorter == SeqsUpTo(S, n - 1)
         IN  shorter \cup {Append(s, x) : s \in {t \in shorter : Len(t) = n - 1}, x \in S}

(***************************************************************************)
(* Strings, base64, JSON                                                   *)
(***************************************************************************)
Quote == "\""
Backslash == "\\"
ValueChars == {"a", Quote, Backslash}
Values == SeqsUpTo(ValueChars, MaxValLen)

\* base64.b64encode(...).decode('UTF-8'): empty input gives the empty string,
\* the encoding is injective and never the input itself.
b64encode(s) == [i \in 1..Len(s) |-> "b64:" \o s[i]]

\* json.dumps of a str: quoted, with quote and backslash escaped.
RECURSIVE JsonEscape(_)
JsonEscape(s) ==
    IF s = <<>> THEN <<>>
    ELSE (IF Head(s) \in {Quote, Backslash} THEN <<Backslash, Head(s)>> ELSE <<Head(s)>>)
         \o JsonEscape(Tail(s))

JsonString(s) == <<Quote>> \o JsonEscape(s) \o <<Quote>>

\* json.dumps of a dict whose values are str; the dict is the sequence of its
\* items in insertion order.
RECURSIVE JsonItems(_)
JsonItems(items) ==
    IF items = <<>> THEN <<>>
    ELSE JsonString(<<items[1][1]>>) \o <<": ">> \o JsonString(items[1][2])
         \o (IF Len(items) > 1 THEN <<", ">> ELSE <<>>)
         \o JsonItems(Tail(items))

json_dumps(items) == <<"{">> \o JsonItems(items) \o <<"}">>

(***************************************************************************)
(* class LicenseChallenge                                                  *)
(***************************************************************************)
LicenseChallenge(otp, playback_info, href, tech, license_request) ==
    [otp |-> otp, playback_info |-> playback_info, href |-> href,
     tech |-> tech, license_request |-> license_request]

\* to_json with the tech test copied from the href test
to_json_copied_test(self) ==
    (IF self.otp # <<>> THEN <<(<<"otp", self.otp>>)>> ELSE <<>>)
    \o (IF self.playback_info # <<>> THEN <<(<<"playbackInfo", self.playback_info>>)>> ELSE <<>>)
    \o (IF self.href # <<>> THEN <<(<<"href", self.href>>)>> ELSE <<>>)
    \o (IF self.href # <<>> THEN <<(<<"tech", self.tech>>)>> ELSE <<>>)
    \o (IF self.license_request # <<>> THEN <<(<<"licenseRequest", self.license_request>>)>> ELSE <<>>)

to_json(self) ==
    (IF self.otp # <<>> THEN <<(<<"otp", self.otp>>)>> ELSE <<>>)
    \o (IF self.playback_info # <<>> THEN <<(<<"playbackInfo", self.playback_info>>)>> ELSE <<>>)
    \o (IF self.href # <<>> THEN <<(<<"href", self.href>>)>> ELSE <<>>)
    \o (IF self.tech # <<>> THEN <<(<<"tech", self.tech>>)>> ELSE <<>>)
    \o (IF self.license_request # <<>> THEN <<(<<"licenseRequest", self.license_request>>)>> ELSE <<>>)

(***************************************************************************)
(* Token codec                                                             *)
(*                                                                         *)
(* token.kind: "none" (flag not given), "empty" (''), "notb64" (base64     *)
(* decoding raises), "notjson" (json.loads raises or does not give an      *)
(* object), "obj" (decodes to the JSON object token.obj).  A key the       *)
(* object lacks holds Absent.                                              *)
(***************************************************************************)
Absent == <<"<absent>">>
TokenKeys == {"otp", "playbackInfo", "href", "tech"}

PbNoVideoId == b64encode(<<"{", "}">>)
PbOk == b64encode(<<"{", "videoId", "}">>)
PlaybackInfos == {<<>>, <<"a">>, PbNoVideoId, PbOk}
FieldValues == {<<>>, <<"a">>}

TokenObjects ==
    [otp : FieldValues \cup {Absent}, playbackInfo : PlaybackInfos \cup {Absent},
     href : FieldValues \cup {Absent}, tech : FieldValues \cup {Absent}]

NoObject == [otp |-> Absent, playbackInfo |-> Absent, href |-> Absent, tech |-> Absent]

Tokens ==
    {[kind |-> k, obj |-> NoObject] : k \in {"none", "empty", "notb64", "notjson"}}
    \cup {[kind |-> "obj", obj |-> o] : o \in TokenObjects}

WvdArgs == {"none", "empty", "device.wvd"}

Ok(v) == [ok |-> TRUE, val |-> v]
Raised == [ok |-> FALSE, val |-> <<>>]

\* json.loads(base64.b64decode(token))
DecodeToken(t) == IF t.kind = "obj" THEN Ok(t.obj) ELSE Raised

\* d[key] on a decoded object
GetItem(d, key) == IF d[key] = Absent THEN Raised ELSE Ok(d[key])

\* json.loads(base64.b64decode(playback_info))['videoId']
DecodePlaybackInfo(playback_info) ==
    IF playback_info = PbOk THEN Ok(<<"vid">>) ELSE Raised

get_video_id(t) ==
    LET d == DecodeToken(t)
    IN  IF ~d.ok THEN Raised
        ELSE LET playback_info == GetItem(d.val, "playbackInfo")
             IN  IF ~playback_info.ok THEN Raised
                 ELSE DecodePlaybackInfo(playback_info.val)

get_video_reference(t) ==
    LET d == DecodeToken(t)
    IN  IF ~d.ok THEN Raised ELSE GetItem(d.val, "href")

(***************************************************************************)
(* get_pssh: re.search of the pattern "opening tag, greedy any-characters  *)
(* group, closing tag", then group(1)                                      *)
(*                                                                         *)
(* A manifest text is a sequence over: "O" the opening tag <cenc:pssh>,    *)
(* "C" the closing tag </cenc:pssh>, "N" a newline, "x" any other          *)
(* character.                                                              *)
(***************************************************************************)
TextSyms == {"O", "C", "N", "x"}
Texts == SeqsUpTo(TextSyms, MaxTextLen)

\* '.' matches any character but a newline
DotStar(text, i, j) == \A k \in (i + 1)..(j - 1) : text[k] # "N"

\* the closing tags the pattern can end at when it starts at i
Ends(text, i) == {j \in (i + 1)..Len(text) : text[j] = "C" /\ DotStar(text, i, j)}

Max(S) == CHOOSE x \in S : \A y \in S : y <= x
Min(S) == CHOOSE x \in S : \A y \in S : x <= y

\* the leftmost start that matches; '.*' is greedy, so the match ends at the
\* last closing tag it can reach
GreedyEnd(text, i) == Max(Ends(text, i))

re_search(text) ==
    LET starts == {i \in 1..Len(text) : text[i] = "O" /\ Ends(text, i) # {}}
    IN  IF starts = {} THEN Raised
        ELSE LET i == Min(starts)
             IN  Ok(SubSeq(text, i + 1, GreedyEnd(text, i) - 1))

(***************************************************************************)
(* urllib.parse.urlparse: scheme and hostname                              *)
(*                                                                         *)
(* A URL is a sequence of the delimiters ":" "/" "?" "#" "@" and of words. *)
(***************************************************************************)
Delims == {":", "/", "?", "#", "@"}

Lower(w) ==
    CASE w = "HTTPS" -> "https"
      [] w = "CDN.Example.com" -> "cdn.example.com"
      [] OTHER -> w

LowerSeq(s) == [i \in 1..Len(s) |-> Lower(s[i])]

IndexOf(s, S, from) ==
    LET hits == {i \in from..Len(s) : s[i] \in S}
    IN  IF hits = {} THEN 0 ELSE Min(hits)

LastIndexOf(s, S) ==
    LET hits == {i \in 1..Len(s) : s[i] \in S}
    IN  IF hits = {} THEN 0 ELSE Max(hits)

\* urlsplit: [scheme, netloc]
urlparse(url) ==
    LET colon == IndexOf(url, {":"}, 1)
        hasScheme == /\ colon > 1
                     /\ \A k \in 1..(colon - 1) : url[k] \notin Delims
                     /\ url[1] # "8443"
        scheme == IF hasScheme THEN LowerSeq(SubSeq(url, 1, colon - 1)) ELSE <<>>
        rest == IF hasScheme THEN SubSeq(url, colon + 1, Len(url)) ELSE url
        hasNetloc == Len(rest) >= 2 /\ rest[1] = "/" /\ rest[2] = "/"
        delim == IF hasNetloc THEN IndexOf(rest, {"/", "?", "#"}, 3) ELSE 0
        netloc == IF ~hasNetloc THEN <<>>
                  ELSE IF delim = 0 THEN SubSeq(rest, 3, Len(rest))
                  ELSE SubSeq(rest, 3, delim - 1)
    IN  [scheme |-> scheme, netloc |-> netloc]

\* hostname read from netloc: userinfo and port stay in
hostname_netloc(netloc) == IF netloc = <<>> THEN <<"None">> ELSE LowerSeq(netloc)

\* ParseResult.hostname: drop the userinfo and the port, lower-case; None
\* when empty, which the f-string renders as 'None'
hostname(netloc) ==
    LET at == LastIndexOf(netloc, {"@"})
        hostinfo == SubSeq(netloc, at + 1, Len(netloc))
        colon == IndexOf(hostinfo, {":"}, 1)
        host == IF colon = 0 THEN hostinfo ELSE SubSeq(hostinfo, 1, colon - 1)
    IN  IF host = <<>> THEN <<"None">> ELSE LowerSeq(host)

UserAgent == <<"Mozilla/5.0">>

\* the headers dict of get_license_response
LicenseHeaders(manifest, video_reference) ==
    LET origin_url == urlparse(manifest)
    IN  [user_agent |-> UserAgent,
         origin |-> origin_url.scheme \o <<":", "/", "/">> \o hostname(origin_url.netloc) \o <<"/">>,
         referer |-> origin_url.scheme \o <<":", "/", "/">> \o hostname(origin_url.netloc) \o <<"/">>,
         vdo_ref |-> video_reference]

(***************************************************************************)
(* setup_license_challenge                                                 *)
(***************************************************************************)
\* the LicenseChallenge object, or Raised when the token lacks a field
NewLicenseChallenge(t, chal) ==
    LET decoded_token == DecodeToken(t)
    IN  IF ~decoded_token.ok THEN Raised
        ELSE LET otp == GetItem(decoded_token.val, "otp")
                 playback_info == GetItem(decoded_token.val, "playbackInfo")
                 href == GetItem(decoded_token.val, "href")
                 tech == GetItem(decoded_token.val, "tech")
             IN  IF ~otp.ok \/ ~playback_info.ok \/ ~href.ok \/ ~tech.ok THEN Raised
                 ELSE Ok(LicenseChallenge(otp.val, playback_info.val, href.val,
                                          tech.val, b64encode(chal)))

setup_license_challenge(self) == b64encode(json_dumps(to_json(self)))

(***************************************************************************)
(* The environment: what the flags, the endpoints, the CDM and the         *)
(* terminal can hand to the program                                        *)
(***************************************************************************)
Statuses == {200, 404}

SampleUrls ==
    {<<"https", ":", "/", "/", "cdn.example.com", ":", "8443", "/", "path">>,
     <<"http", ":", "/", "/", "CDN.Example.com", "/", "path", "?", "q">>}

\* response bodies of the metadata endpoint
MetaBodies ==
    {[kind |-> "notjson", manifest |-> <<>>], [kind |-> "nofield", manifest |-> <<>>]}
    \cup {[kind |-> "json", manifest |-> u] : u \in SampleUrls}

ManifestSamples ==
    {<<"x">>, <<"x", "O", "x", "C", "x">>, <<"O", "x", "C", "O", "x", "C">>,
     <<"O", "N", "C">>}

Challenges == {<<>>, <<"c">>}

LicenseUrl == <<"https", ":", "/", "/", "license.vdocipher.com", "/", "auth">>

\* response bodies of the license endpoint
LicenseBodies ==
    {[kind |-> "notjson", license |-> <<>>], [kind |-> "nofield", license |-> <<>>],
     [kind |-> "json", license |-> <<"lic">>]}

TerminalSizes == {0, 2}

KeyOptions ==
    {[type |-> "CONTENT", kid |-> "aa", key |-> "bb"],
     [type |-> "CONTENT", kid |-> "ab", key |-> "cc"],
     [type |-> "SIGNING", kid |-> "ac", key |-> "dd"]}

KeyLists == SeqsUpTo(KeyOptions, MaxKeys)

(***************************************************************************)
(* Pieces of main() and of the request functions                           *)
(***************************************************************************)
\* the flag test with 'and' for 'or'
ArgsMissing_and(w, t) == w \in {"none", "empty"} /\ t.kind \in {"none", "empty"}

\* create_argument_parser: not args.wvd or not args.token
ArgsMissing(w, t) == w \in {"none", "empty"} \/ t.kind \in {"none", "empty"}

\* get_mpd: req.json()['dash']['manifest']; the status is not looked at
get_mpd(body) == IF body.kind = "json" THEN Ok(body.manifest) ELSE Raised

\* get_license_response: req.json()['license']; the status is not looked at
get_license_response(body) == IF body.kind = "json" THEN Ok(body.license) ELSE Raised

\* '*' * terminal_size
Separator(n) == [i \in 1..n |-> "*"]

\* the loop without its type test
IsContent_any(key) == TRUE

\* key.type == 'CONTENT'
IsContent(key) == key.type = "CONTENT"

\* f'[{key.type}] {key.kid.hex}:{key.key.hex()}'
KeyLine(key) == <<"[", key.type, "] ", key.kid, ":", key.key>>

\* f'[  MPD  ] {mpd}'
MpdLine(url) == <<"[  MPD  ] ">> \o url

\* an exception leaves main(): traceback, exit status 1
Raise(c) == pc' = "done" /\ exitStatus' = 1 /\ error' = c

\* the call returned: main() goes on with its next statement
Goto(p) == pc' = p /\ exitStatus' = exitStatus /\ error' = error

\* get_pssh: the request fails, or the manifest server answers with a text
\* drawn from T
GetPssh(T) ==
    /\ calls' = Append(calls, "get_pssh")
    /\ http' = Append(http, "manifest")
    /\ \/ /\ status' = status
          /\ mpdText' = mpdText
          /\ pssh' = pssh
          /\ Raise("get_pssh")
       \/ \E st \in Statuses, text \in T :
             /\ status' = [status EXCEPT !.manifest = st]
             /\ mpdText' = text
             /\ LET r == re_search(text)
                IN  IF r.ok THEN pssh' = r.val /\ Goto("Device_load")
                    ELSE pssh' = pssh /\ Raise("get_pssh")
    /\ UNCHANGED <<wvd, token, video_ref, video_id, mpd, session, challenge,
                   lc, raw_license_resp, license_challenge, request,
                   license_response, terminal_size, keys, todo, out, cdmCalls>>

(***************************************************************************)
(* main()                                                                  *)
(***************************************************************************)
\* main, line 135: parse_args, then usage and sys.exit(1) when a flag is missing
create_argument_parser ==
    /\ pc = "start"
    /\ IF ArgsMissing(wvd, token)
       THEN /\ out' = Append(out, <<"usage">>)
            /\ pc' = "done"
            /\ exitStatus' = 1
            /\ error' = error
       ELSE /\ out' = out
            /\ Goto("get_video_reference")
    /\ UNCHANGED <<wvd, token, video_ref, video_id, mpd, mpdText, pssh,
                 session, challenge, lc, raw_license_resp, license_challenge,
                 request, license_response, terminal_size, keys, todo, calls,
                 cdmCalls, http, status>>

\* main, line 139
main_get_video_reference ==
    /\ pc = "get_video_reference"
    /\ calls' = Append(calls, "get_video_reference")
    /\ LET r == get_video_reference(token)
       IN  IF r.ok THEN video_ref' = r.val /\ Goto("get_video_id")
           ELSE video_ref' = video_ref /\ Raise("get_video_reference")
    /\ UNCHANGED <<wvd, token, video_id, mpd, mpdText, pssh, session,
                 challenge, lc, raw_license_resp, license_challenge, request,
                 license_response, terminal_size, keys, todo, out, cdmCalls,
                 http, status>>

\* main, line 140
main_get_video_id ==
    /\ pc = "get_video_id"
    /\ calls' = Append(calls, "get_video_id")
    /\ LET r == get_video_id(token)
       IN  IF r.ok THEN video_id' = r.val /\ Goto("get_mpd")
           ELSE video_id' = video_id /\ Raise("get_video_id")
    /\ UNCHANGED <<wvd, token, video_ref, mpd, mpdText, pssh, session,
                 challenge, lc, raw_license_resp, license_challenge, request,
                 license_response, terminal_size, keys, todo, out, cdmCalls,
                 http, status>>

\* get_mpd that tries again when the request fails
main_get_mpd_retry ==
    /\ pc = "get_mpd"
    /\ calls' = Append(calls, "get_mpd")
    /\ http' = Append(http, "meta")
    /\ \/ /\ status' = status
          /\ mpd' = mpd
          /\ Goto("get_mpd")
       \/ \E st \in Statuses, body \in MetaBodies :
             /\ status' = [status EXCEPT !.meta = st]
             /\ LET r == get_mpd(body)
                IN  IF r.ok THEN mpd' = r.val /\ Goto("get_pssh")
                    ELSE mpd' = mpd /\ Raise("get_mpd")
    /\ UNCHANGED <<wvd, token, video_ref, video_id, mpdText, pssh, session,
                 challenge, lc, raw_license_resp, license_challenge, request,
                 license_response, terminal_size, keys, todo, out, cdmCalls>>

\* main, line 141: get_mpd; the request fails, or the endpoint answers
main_get_mpd ==
    /\ pc = "get_mpd"
    /\ calls' = Append(calls, "get_mpd")
    /\ http' = Append(http, "meta")
    /\ \/ /\ status' = status
          /\ mpd' = mpd
          /\ Raise("get_mpd")
       \/ \E st \in Statuses, body \in MetaBodies :
             /\ status' = [status EXCEPT !.meta = st]
             /\ LET r == get_mpd(body)
                IN  IF r.ok THEN mpd' = r.val /\ Goto("get_pssh")
                    ELSE mpd' = mpd /\ Raise("get_mpd")
    /\ UNCHANGED <<wvd, token, video_ref, video_id, mpdText, pssh, session,
                 challenge, lc, raw_license_resp, license_challenge, request,
                 license_response, terminal_size, keys, todo, out, cdmCalls>>

\* main, line 142: get_pssh over the sample manifests
main_get_pssh ==
    /\ pc = "get_pssh"
    /\ GetPssh(ManifestSamples)

\* main, line 144
main_Device_load ==
    /\ pc = "Device_load"
    /\ calls' = Append(calls, "Device.load")
    /\ \/ Goto("Cdm_from_device")
       \/ Raise("Device.load")
    /\ UNCHANGED <<wvd, token, video_ref, video_id, mpd, mpdText, pssh,
                 session, challenge, lc, raw_license_resp, license_challenge,
                 request, license_response, terminal_size, keys, todo, out,
                 cdmCalls, http, status>>

\* main, line 145
main_Cdm_from_device ==
    /\ pc = "Cdm_from_device"
    /\ calls' = Append(calls, "Cdm.from_device")
    /\ \/ Goto("cdm_open")
       \/ Raise("Cdm.from_device")
    /\ UNCHANGED <<wvd, token, video_ref, video_id, mpd, mpdText, pssh,
                 session, challenge, lc, raw_license_resp, license_challenge,
                 request, license_response, terminal_size, keys, todo, out,
                 cdmCalls, http, status>>

\* main, line 146
main_cdm_open ==
    /\ pc = "cdm_open"
    /\ calls' = Append(calls, "cdm.open")
    /\ cdmCalls' = Append(cdmCalls, <<"open", session>>)
    /\ \/ session' = "open" /\ Goto("set_service_certificate")
       \/ session' = session /\ Raise("cdm.open")
    /\ UNCHANGED <<wvd, token, video_ref, video_id, mpd, mpdText, pssh,
                 challenge, lc, raw_license_resp, license_challenge, request,
                 license_response, terminal_size, keys, todo, out, http,
                 status>>

\* main, line 147
main_set_service_certificate ==
    /\ pc = "set_service_certificate"
    /\ calls' = Append(calls, "cdm.set_service_certificate")
    /\ cdmCalls' = Append(cdmCalls, <<"set_service_certificate", session>>)
    /\ \/ Goto("PSSH")
       \/ Raise("cdm.set_service_certificate")
    /\ UNCHANGED <<wvd, token, video_ref, video_id, mpd, mpdText, pssh,
                 session, challenge, lc, raw_license_resp, license_challenge,
                 request, license_response, terminal_size, keys, todo, out,
                 http, status>>

\* main, line 150: the PSSH(pssh) argument is built before the call
main_PSSH ==
    /\ pc = "PSSH"
    /\ calls' = Append(calls, "PSSH")
    /\ \/ Goto("get_license_challenge")
       \/ Raise("PSSH")
    /\ UNCHANGED <<wvd, token, video_ref, video_id, mpd, mpdText, pssh,
                 session, challenge, lc, raw_license_resp, license_challenge,
                 request, license_response, terminal_size, keys, todo, out,
                 cdmCalls, http, status>>

\* main, lines 148-152
main_get_license_challenge ==
    /\ pc = "get_license_challenge"
    /\ calls' = Append(calls, "cdm.get_license_challenge")
    /\ cdmCalls' = Append(cdmCalls, <<"get_license_challenge", session>>)
    /\ \/ \E c \in Challenges : challenge' = c /\ Goto("setup_license_challenge")
       \/ challenge' = challenge /\ Raise("cdm.get_license_challenge")
    /\ UNCHANGED <<wvd, token, video_ref, video_id, mpd, mpdText, pssh,
                 session, lc, raw_license_resp, license_challenge, request,
                 license_response, terminal_size, keys, todo, out, http,
                 status>>

\* main, line 154
main_setup_license_challenge ==
    /\ pc = "setup_license_challenge"
    /\ calls' = Append(calls, "setup_license_challenge")
    /\ LET r == NewLicenseChallenge(token, challenge)
       IN  IF r.ok
           THEN /\ lc' = r.val
                /\ raw_license_resp' = json_dumps(to_json(r.val))
                /\ license_challenge' = setup_license_challenge(r.val)
                /\ Goto("get_license_response")
           ELSE /\ lc' = lc
                /\ raw_license_resp' = raw_license_resp
                /\ license_challenge' = license_challenge
                /\ Raise("setup_license_challenge")
    /\ UNCHANGED <<wvd, token, video_ref, video_id, mpd, mpdText, pssh,
                 session, challenge, request, license_response,
                 terminal_size, keys, todo, out, cdmCalls, http, status>>

\* main, lines 155-159
main_get_license_response ==
    /\ pc = "get_license_response"
    /\ calls' = Append(calls, "get_license_response")
    /\ http' = Append(http, "license")
    /\ request' = [url |-> LicenseUrl,
                   headers |-> LicenseHeaders(mpd, video_ref),
                   json |-> license_challenge]
    /\ \/ /\ status' = status
          /\ license_response' = license_response
          /\ Raise("get_license_response")
       \/ \E st \in Statuses, body \in LicenseBodies :
             /\ status' = [status EXCEPT !.license = st]
             /\ LET r == get_license_response(body)
                IN  IF r.ok THEN license_response' = r.val /\ Goto("parse_license")
                    ELSE license_response' = license_response /\ Raise("get_license_response")
    /\ UNCHANGED <<wvd, token, video_ref, video_id, mpd, mpdText, pssh,
                 session, challenge, lc, raw_license_resp, license_challenge,
                 terminal_size, keys, todo, out, cdmCalls>>

\* main, line 161
main_parse_license ==
    /\ pc = "parse_license"
    /\ calls' = Append(calls, "cdm.parse_license")
    /\ cdmCalls' = Append(cdmCalls, <<"parse_license", session>>)
    /\ \/ Goto("get_terminal_size")
       \/ Raise("cdm.parse_license")
    /\ UNCHANGED <<wvd, token, video_ref, video_id, mpd, mpdText, pssh,
                 session, challenge, lc, raw_license_resp, license_challenge,
                 request, license_response, terminal_size, keys, todo, out,
                 http, status>>

\* main, line 163
main_get_terminal_size ==
    /\ pc = "get_terminal_size"
    /\ calls' = Append(calls, "os.get_terminal_size")
    /\ \/ \E n \in TerminalSizes : terminal_size' = n /\ Goto("print_separator")
       \/ terminal_size' = terminal_size /\ Raise("os.get_terminal_size")
    /\ UNCHANGED <<wvd, token, video_ref, video_id, mpd, mpdText, pssh,
                 session, challenge, lc, raw_license_resp, license_challenge,
                 request, license_response, keys, todo, out, cdmCalls, http,
                 status>>

\* main, line 164
main_print_separator ==
    /\ pc = "print_separator"
    /\ calls' = Append(calls, "print")
    /\ \/ out' = Append(out, Separator(terminal_size)) /\ Goto("get_keys")
       \/ out' = out /\ Raise("print")
    /\ UNCHANGED <<wvd, token, video_ref, video_id, mpd, mpdText, pssh,
                 session, challenge, lc, raw_license_resp, license_challenge,
                 request, license_response, terminal_size, keys, todo,
                 cdmCalls, http, status>>

\* main, line 166: the iterable of the for statement
main_get_keys ==
    /\ pc = "get_keys"
    /\ calls' = Append(calls, "cdm.get_keys")
    /\ cdmCalls' = Append(cdmCalls, <<"get_keys", session>>)
    /\ \/ \E ks \in KeyLists : keys' = ks /\ todo' = ks /\ Goto("for_key")
       \/ keys' = keys /\ todo' = todo /\ Raise("cdm.get_keys")
    /\ UNCHANGED <<wvd, token, video_ref, video_id, mpd, mpdText, pssh,
                 session, challenge, lc, raw_license_resp, license_challenge,
                 request, license_response, terminal_size, out, http, status>>

\* the for loop asking the CDM for the keys in every iteration
main_for_key_requery ==
    /\ pc = "for_key"
    /\ todo # <<>>
    /\ todo' = Tail(todo)
    /\ cdmCalls' = Append(cdmCalls, <<"get_keys", session>>)
    /\ LET key == Head(todo)
       IN  IF IsContent(key)
           THEN /\ calls' = Append(calls, "print")
                /\ \/ out' = Append(out, KeyLine(key)) /\ Goto("for_key")
                   \/ out' = out /\ Raise("print")
           ELSE /\ calls' = calls
                /\ out' = out
                /\ Goto("for_key")
    /\ UNCHANGED <<wvd, token, video_ref, video_id, mpd, mpdText, pssh,
                 session, challenge, lc, raw_license_resp, license_challenge,
                 request, license_response, terminal_size, keys, http,
                 status>>

\* main, lines 166-168: one iteration of the for loop
main_for_key ==
    /\ pc = "for_key"
    /\ todo # <<>>
    /\ todo' = Tail(todo)
    /\ LET key == Head(todo)
       IN  IF IsContent(key)
           THEN /\ calls' = Append(calls, "print")
                /\ \/ out' = Append(out, KeyLine(key)) /\ Goto("for_key")
                   \/ out' = out /\ Raise("print")
           ELSE /\ calls' = calls
                /\ out' = out
                /\ Goto("for_key")
    /\ UNCHANGED <<wvd, token, video_ref, video_id, mpd, mpdText, pssh,
                 session, challenge, lc, raw_license_resp, license_challenge,
                 request, license_response, terminal_size, keys, cdmCalls,
                 http, status>>

\* main, line 170: after the loop
main_print_mpd ==
    /\ pc = "for_key"
    /\ todo = <<>>
    /\ calls' = Append(calls, "print")
    /\ \/ out' = Append(out, MpdLine(mpd)) /\ Goto("print_separator_end")
       \/ out' = out /\ Raise("print")
    /\ UNCHANGED <<wvd, token, video_ref, video_id, mpd, mpdText, pssh,
                 session, challenge, lc, raw_license_resp, license_challenge,
                 request, license_response, terminal_size, keys, todo,
                 cdmCalls, http, status>>

\* main, line 171
main_print_separator_end ==
    /\ pc = "print_separator_end"
    /\ calls' = Append(calls, "print")
    /\ \/ out' = Append(out, Separator(terminal_size)) /\ Goto("cdm_close")
       \/ out' = out /\ Raise("print")
    /\ UNCHANGED <<wvd, token, video_ref, video_id, mpd, mpdText, pssh,
                 session, challenge, lc, raw_license_resp, license_challenge,
                 request, license_response, terminal_size, keys, todo,
                 cdmCalls, http, status>>

\* main, line 173, then main returns and the process exits with status 0
main_cdm_close ==
    /\ pc = "cdm_close"
    /\ calls' = Append(calls, "cdm.close")
    /\ cdmCalls' = Append(cdmCalls, <<"close", session>>)
    /\ \/ /\ session' = "closed"
          /\ pc' = "done"
          /\ exitStatus' = 0
          /\ error' = error
       \/ /\ session' = session
          /\ Raise("cdm.close")
    /\ UNCHANGED <<wvd, token, video_ref, video_id, mpd, mpdText, pssh,
                 challenge, lc, raw_license_resp, license_challenge, request,
                 license_response, terminal_size, keys, todo, out, http,
                 status>>

(***************************************************************************)
(* The run                                                                 *)
(***************************************************************************)
NoHeaders == [user_agent |-> <<>>, origin |-> <<>>, referer |-> <<>>, vdo_ref |-> <<>>]

NoCallYet ==
    /\ video_ref = <<>>
    /\ video_id = <<>>
    /\ mpd = <<>>
    /\ mpdText = <<>>
    /\ pssh = <<>>
    /\ session = "none"
    /\ challenge = <<>>
    /\ raw_license_resp = <<>>
    /\ license_challenge = <<>>
    /\ request = [url |-> <<>>, headers |-> NoHeaders, json |-> <<>>]
    /\ license_response = <<>>
    /\ terminal_size = 0
    /\ keys = <<>>
    /\ todo = <<>>
    /\ out = <<>>
    /\ exitStatus = -1
    /\ error = "none"
    /\ calls = <<>>
    /\ cdmCalls = <<>>
    /\ http = <<>>
    /\ status = [meta |-> 0, manifest |-> 0, license |-> 0]

Init ==
    /\ pc = "start"
    /\ wvd \in WvdArgs
    /\ token \in Tokens
    /\ lc = LicenseChallenge(<<>>, <<>>, <<>>, <<>>, <<>>)
    /\ NoCallYet

Next ==
    \/ create_argument_parser
    \/ main_get_video_reference
    \/ main_get_video_id
    \/ main_get_mpd
    \/ main_get_pssh
    \/ main_Device_load
    \/ main_Cdm_from_device
    \/ main_cdm_open
    \/ main_set_service_certificate
    \/ main_PSSH
    \/ main_get_license_challenge
    \/ main_setup_license_challenge
    \/ main_get_license_response
    \/ main_parse_license
    \/ main_get_terminal_size
    \/ main_print_separator
    \/ main_get_keys
    \/ main_for_key
    \/ main_print_mpd
    \/ main_print_separator_end
    \/ main_cdm_close

Spec == Init /\ [][Next]_vars

(***************************************************************************)
(* Specifications of the single functions: the state is the one main() is  *)
(* in when it calls the function, the input ranges over a bounded set.     *)
(***************************************************************************)
SampleToken(href) ==
    [kind |-> "obj", obj |-> [otp |-> <<"a">>, playbackInfo |-> PbOk, href |-> href, tech |-> <<"a">>]]

\* the state in which main() calls get_pssh
InitPssh ==
    /\ pc = "get_pssh"
    /\ wvd = "device.wvd"
    /\ token = SampleToken(<<"a">>)
    /\ video_ref = <<"a">>
    /\ video_id = <<"vid">>
    /\ mpd \in SampleUrls
    /\ mpdText = <<>>
    /\ pssh = <<>>
    /\ session = "none"
    /\ challenge = <<>>
    /\ lc = LicenseChallenge(<<>>, <<>>, <<>>, <<>>, <<>>)
    /\ raw_license_resp = <<>>
    /\ license_challenge = <<>>
    /\ request = [url |-> <<>>, headers |-> NoHeaders, json |-> <<>>]
    /\ license_response = <<>>
    /\ terminal_size = 0
    /\ keys = <<>>
    /\ todo = <<>>
    /\ out = <<>>
    /\ exitStatus = -1
    /\ error = "none"
    /\ calls = <<"get_video_reference", "get_video_id", "get_mpd">>
    /\ cdmCalls = <<>>
    /\ http = <<"meta">>
    /\ status = [meta |-> 200, manifest |-> 0, license |-> 0]

\* get_pssh, lines 67-69, over every manifest text up to MaxTextLen
any_get_pssh ==
    /\ pc = "get_pssh"
    /\ GetPssh(Texts)

SpecPssh == InitPssh /\ [][any_get_pssh]_vars

\* manifest URLs, assembled from their parts
UrlParts ==
    [scheme : {"https", "http", "HTTPS"},
     userinfo : {<<>>, <<"user", "@">>, <<"user", ":", "pw", "@">>},
     host : {"cdn.example.com", "CDN.Example.com"},
     port : {<<>>, <<":", "8443">>},
     path : {<<>>, <<"/", "path">>, <<"/", "path", "@", "x", ":", "8443">>},
     query : {<<>>, <<"?", "q">>, <<"?", "q", "/", "x", "@", "x">>},
     fragment : {<<>>, <<"#", "frag">>}]

BuildUrl(p) ==
    <<p.scheme, ":", "/", "/">> \o p.userinfo \o <<p.host>> \o p.port
    \o p.path \o p.query \o p.fragment

Urls == {BuildUrl(p) : p \in UrlParts}

\* the state in which main() calls get_license_response
InitHeaders ==
    /\ pc = "get_license_response"
    /\ wvd = "device.wvd"
    /\ \E href \in FieldValues : token = SampleToken(href) /\ video_ref = href
    /\ video_id = <<"vid">>
    /\ mpd \in Urls
    /\ mpdText = <<"O", "x", "C">>
    /\ pssh = <<"x">>
    /\ session = "open"
    /\ challenge = <<"c">>
    /\ lc = NewLicenseChallenge(token, challenge).val
    /\ raw_license_resp = json_dumps(to_json(lc))
    /\ license_challenge = setup_license_challenge(lc)
    /\ request = [url |-> <<>>, headers |-> NoHeaders, json |-> <<>>]
    /\ license_response = <<>>
    /\ terminal_size = 0
    /\ keys = <<>>
    /\ todo = <<>>
    /\ out = <<>>
    /\ exitStatus = -1
    /\ error = "none"
    /\ calls = <<"get_video_reference", "get_video_id", "get_mpd", "get_pssh",
                 "Device.load", "Cdm.from_device", "cdm.open",
                 "cdm.set_service_certificate", "PSSH", "cdm.get_license_challenge",
                 "setup_license_challenge">>
    /\ cdmCalls = <<(<<"open", "none">>), (<<"set_service_certificate", "open">>),
                    (<<"get_license_challenge", "open">>)>>
    /\ http = <<"meta", "manifest">>
    /\ status = [meta |-> 200, manifest |-> 200, license |-> 0]

SpecHeaders == InitHeaders /\ [][main_get_license_response]_vars

\* a LicenseChallenge object as its constructor leaves it, for any five strings
InitEnvelope ==
    /\ pc = "LicenseChallenge"
    /\ wvd = "device.wvd"
    /\ token = SampleToken(<<"a">>)
    /\ lc \in [otp : Values, playback_info : Values, href : Values, tech : Values,
                license_request : Values]
    /\ NoCallYet

\* setup_license_challenge, lines 106-110, on the LicenseChallenge object lc
LicenseChallenge_to_json ==
    /\ pc = "LicenseChallenge"
    /\ raw_license_resp' = json_dumps(to_json(lc))
    /\ license_challenge' = setup_license_challenge(lc)
    /\ Goto("serialized")
    /\ UNCHANGED <<wvd, token, video_ref, video_id, mpd, mpdText, pssh,
                 session, challenge, lc, request, license_response,
                 terminal_size, keys, todo, out, calls, cdmCalls, http,
                 status>>

SpecEnvelope == InitEnvelope /\ [][LicenseChallenge_to_json]_vars

(***************************************************************************)
(* Properties                                                              *)
(***************************************************************************)
Last(s) == s[Len(s)]
Count(s, x) == Cardinality({i \in 1..Len(s) : s[i] = x})
IsPrefix(s, t) == Len(s) <= Len(t) /\ \A i \in 1..Len(s) : s[i] = t[i]

\* C1: once cdm.open has returned, no run terminates with the session still
\* open: whatever call fails afterwards, the session is closed.
C1_SessionClosedOnEveryExit == pc = "done" => session # "open"

CdmOrder ==
    <<"open", "set_service_certificate", "get_license_challenge", "parse_license",
      "get_keys", "close">>

\* C2: the calls made on the CDM session are a prefix of open,
\* set_service_certificate, get_license_challenge, parse_license, get_keys,
\* close (so each is made at most once and none is skipped); open meets no
\* session, every other call meets the open session.
C2_CdmCallOrder ==
    /\ Len(cdmCalls) <= Len(CdmOrder)
    /\ \A i \in 1..Len(cdmCalls) :
          /\ cdmCalls[i][1] = CdmOrder[i]
          /\ cdmCalls[i][2] = (IF i = 1 THEN "none" ELSE "open")
    /\ session # "none" => cdmCalls # <<>>
    /\ session = "closed" => Len(cdmCalls) = Len(CdmOrder)

C2_Witness == pc = "done" /\ session = "closed" /\ Len(cdmCalls) = 6

StepOrder ==
    <<"decode token", "metadata GET", "manifest GET", "open session",
      "set certificate", "generate challenge", "build envelope", "license POST",
      "parse license", "enumerate and print keys", "close session">>

\* the step of the run a call of main() belongs to
StepOf(c) ==
    CASE c \in {"get_video_reference", "get_video_id"} -> "decode token"
      [] c = "get_mpd" -> "metadata GET"
      [] c = "get_pssh" -> "manifest GET"
      [] c \in {"Device.load", "Cdm.from_device", "cdm.open"} -> "open session"
      [] c = "cdm.set_service_certificate" -> "set certificate"
      [] c \in {"PSSH", "cdm.get_license_challenge"} -> "generate challenge"
      [] c = "setup_license_challenge" -> "build envelope"
      [] c = "get_license_response" -> "license POST"
      [] c = "cdm.parse_license" -> "parse license"
      [] c \in {"os.get_terminal_size", "print", "cdm.get_keys"} -> "enumerate and print keys"
      [] c = "cdm.close" -> "close session"

\* the steps of the run: the step of each call, a step counted once while
\* its calls follow one another
RECURSIVE Steps(_)
Steps(cs) ==
    IF cs = <<>> THEN <<>>
    ELSE LET before == Steps(SubSeq(cs, 1, Len(cs) - 1))
             step == StepOf(Last(cs))
         IN  IF before # <<>> /\ Last(before) = step THEN before ELSE Append(before, step)

OncePerRun ==
    {"get_video_reference", "get_video_id", "get_mpd", "get_pssh", "Device.load",
     "Cdm.from_device", "cdm.open", "cdm.set_service_certificate", "PSSH",
     "cdm.get_license_challenge", "setup_license_challenge", "get_license_response",
     "cdm.parse_license", "os.get_terminal_size", "cdm.get_keys", "cdm.close"}

\* C3: the steps executed are a prefix of the fixed sequence, no call other
\* than print is made twice, each endpoint is contacted at most once, and
\* the call that failed is the last one made, but for a session close.
C3_StepsArePrefix ==
    /\ IsPrefix(Steps(calls), StepOrder)
    /\ \A c \in OncePerRun : Count(calls, c) <= 1
    /\ \A e \in {"meta", "manifest", "license"} : Count(http, e) <= 1
    /\ error # "none" =>
          /\ pc = "done"
          /\ calls # <<>>
          /\ \/ Last(calls) = error
             \/ /\ Len(calls) >= 2
                /\ Last(calls) = "cdm.close"
                /\ calls[Len(calls) - 1] = error

C3_Witness ==
    /\ error = "get_license_response"
    /\ http = <<"meta", "manifest", "license">>
    /\ Len(Steps(calls)) = 8

IsKeyLine(line) == Len(line) = 6 /\ line[1] = "["
Answered(e) == status[e] # 0
Is2xx(st) == st >= 200 /\ st <= 299

\* C4: when an endpoint has answered with a non-2xx status, no key line is
\* printed and the run does not end with exit status 0.
C4_Non2xxAborts ==
    (\E e \in DOMAIN status : Answered(e) /\ ~Is2xx(status[e])) =>
        /\ \A i \in 1..Len(out) : ~IsKeyLine(out[i])
        /\ exitStatus # 0
        /\ (pc = "done" => exitStatus > 0)

EnvelopeKeys == <<"otp", "playbackInfo", "href", "tech", "licenseRequest">>

FieldOf(self, k) ==
    CASE k = "otp" -> self.otp
      [] k = "playbackInfo" -> self.playback_info
      [] k = "href" -> self.href
      [] k = "tech" -> self.tech
      [] k = "licenseRequest" -> self.license_request

\* reads a JSON string from the symbol after its opening quote
RECURSIVE ReadString(_, _, _)
ReadString(s, i, acc) ==
    IF s[i] = Quote THEN [val |-> acc, next |-> i + 1]
    ELSE IF s[i] = Backslash THEN ReadString(s, i + 2, Append(acc, s[i + 1]))
    ELSE ReadString(s, i + 1, Append(acc, s[i]))

\* reads the members of a JSON object from the opening quote of a key
RECURSIVE ReadMembers(_, _, _)
ReadMembers(s, i, acc) ==
    LET k == ReadString(s, i + 1, <<>>)
        v == ReadString(s, k.next + 2, <<>>)
        item == <<k.val, v.val>>
    IN  IF s[v.next] = ", " THEN ReadMembers(s, v.next + 1, Append(acc, item))
        ELSE Append(acc, item)

\* the members of a serialized JSON object, in the order they are written
JsonMembers(s) == IF s[2] = "}" THEN <<>> ELSE ReadMembers(s, 2, <<>>)

\* C5: the serialized envelope holds a key iff the field is not the empty
\* string, with the field's value, the keys in the order otp, playbackInfo,
\* href, tech, licenseRequest.
C5_EnvelopeOmitsEmpty ==
    pc = "serialized" =>
        LET members == JsonMembers(raw_license_resp)
            present == {k \in 1..5 : FieldOf(lc, EnvelopeKeys[k]) # <<>>}
        IN  /\ Len(members) = Cardinality(present)
            /\ \A k \in 1..5 :
                  (k \in present) <=>
                      \E m \in 1..Len(members) : members[m][1] = <<EnvelopeKeys[k]>>
            /\ \A m \in 1..Len(members) :
                  \E k \in present :
                      /\ members[m] = <<(<<EnvelopeKeys[k]>>), FieldOf(lc, EnvelopeKeys[k])>>
                      /\ m = Cardinality({j \in present : j <= k})

C5_Witness ==
    /\ pc = "serialized"
    /\ lc.otp = <<>>
    /\ lc.playback_info = <<Quote>>
    /\ lc.href = <<>>
    /\ lc.tech = <<Backslash>>
    /\ lc.license_request = <<"a">>

RECURSIVE ContentLines(_)
ContentLines(ks) ==
    IF ks = <<>> THEN <<>>
    ELSE (IF Head(ks).type = "CONTENT"
          THEN <<(<<"[", "CONTENT", "] ", Head(ks).kid, ":", Head(ks).key>>)>>
          ELSE <<>>)
         \o ContentLines(Tail(ks))

\* C6: a run that exits with status 0 has printed a separator line, one key
\* line per CONTENT key in the order get_keys returned them and none for
\* another key, the manifest URL line, and the same separator line again.
C6_SuccessfulOutput ==
    exitStatus = 0 =>
        /\ out = <<[i \in 1..terminal_size |-> "*"]>> \o ContentLines(keys)
                 \o <<(<<"[  MPD  ] ">> \o mpd)>> \o <<[i \in 1..terminal_size |-> "*"]>>
        /\ out[1] = Last(out)
        /\ pc = "done"

C6_Witness ==
    /\ exitStatus = 0
    /\ Len(keys) = 2
    /\ keys[1].type = "SIGNING"
    /\ keys[2].type = "CONTENT"

FlagMissing == wvd \in {"none", "empty"} \/ token.kind \in {"none", "empty"}

\* C7: with --wvd or --token missing or empty the program prints usage and
\* exits with status 1, having made no call, no request and opened no
\* session; with both given it goes on to decode the token.
C7_MissingFlagUsage ==
    pc # "start" =>
        IF FlagMissing
        THEN /\ pc = "done"
             /\ exitStatus = 1
             /\ out = <<(<<"usage">>)>>
             /\ calls = <<>>
             /\ http = <<>>
             /\ cdmCalls = <<>>
             /\ session = "none"
        ELSE /\ out = <<>> \/ out[1] # <<"usage">>
             /\ IF calls = <<>> THEN pc = "get_video_reference"
                ELSE calls[1] = "get_video_reference"

C7_Witness ==
    /\ pc = "done"
    /\ wvd = "device.wvd"
    /\ token.kind = "empty"
    /\ out = <<(<<"usage">>)>>

\* the content of the first pssh element of a text: from the first opening
\* tag that has a closing tag after it to the first closing tag after it
HasElement(text) ==
    \E i, j \in 1..Len(text) : i < j /\ text[i] = "O" /\ text[j] = "C"

FirstElement(text) ==
    LET i == Min({k \in 1..Len(text) : text[k] = "O" /\ \E j \in (k + 1)..Len(text) : text[j] = "C"})
        j == Min({k \in (i + 1)..Len(text) : text[k] = "C"})
    IN  SubSeq(text, i + 1, j - 1)

\* C8: when the manifest server has answered, get_pssh returns the content
\* of the first pssh element of the text if there is one, and otherwise
\* raises before a CDM session is opened.
C8_FirstPsshElement ==
    (pc # "get_pssh" /\ Answered("manifest")) =>
        IF HasElement(mpdText)
        THEN error = "none" /\ pssh = FirstElement(mpdText)
        ELSE error = "get_pssh" /\ pc = "done" /\ session = "none" /\ cdmCalls = <<>>

\* C9: origin and referer of the license request are both scheme://host/
\* of the manifest URL (scheme and host in lower case, as urlparse gives
\* them), with nothing of its userinfo, port, path, query or fragment, and
\* vdo-ref is the href of the token.
C9_OriginFromSchemeAndHost ==
    request.url # <<>> =>
        /\ \A p \in UrlParts :
              mpd = BuildUrl(p) =>
                  /\ request.headers.origin = <<Lower(p.scheme), ":", "/", "/", Lower(p.host), "/">>
                  /\ request.headers.referer = request.headers.origin
        /\ \E p \in UrlParts : mpd = BuildUrl(p)
        /\ request.headers.vdo_ref = token.obj.href

C9_Witness ==
    /\ request.url # <<>>
    /\ mpd = <<"https", ":", "/", "/", "user", ":", "pw", "@", "cdn.example.com", ":", "8443",
               "/", "path", "?", "q", "#", "frag">>
    /\ request.headers.origin = <<"https", ":", "/", "/", "cdn.example.com", "/">>

TokenInvalid ==
    \/ token.kind # "obj"
    \/ \E k \in TokenKeys : token.obj[k] = Absent
    \/ token.obj.playbackInfo # PbOk

\* C10: a token that does not decode, or lacks otp, playbackInfo, href, tech
\* or the nested videoId, makes the run fail while decoding the token:
\* no request has been issued and no CDM session opened.
C10_TokenValidatedFirst ==
    (~FlagMissing /\ TokenInvalid) =>
        /\ http = <<>>
        /\ session = "none"
        /\ cdmCalls = <<>>
        /\ pc = "done" => error \in {"get_video_reference", "get_video_id"}

====
